---------------------------- MODULE Spec2Model ----------------------------
(***************************************************************************)
(* A model of absl.py: GDB pretty-printers for abseil's SwissTable         *)
(* containers.                                                             *)
(*                                                                         *)
(* Python strings are sequences of one-character strings, so that          *)
(* str.find, slicing and concatenation are computed character by           *)
(* character, as the interpreter does.  Indices returned by the string     *)
(* operators are Python's (0-based, -1 for "not found").                   *)
(***************************************************************************)
EXTENDS Integers, Sequences, FiniteSets, TLC

(***************************************************************************)
(* Bounds of the model.                                                    *)
(***************************************************************************)
\* largest capacity_ of an inspected table
MaxCap == 3
\* longest text appended to a head to form a dispatched type name
MaxTail == 4
\* most fragments concatenated to form an input of the version insertion
MaxParts == 3

(***************************************************************************)
(* String literals of the source.                                          *)
(***************************************************************************)
ABSL_OPTION_INLINE_NAMESPACE_NAME ==
    <<"l","t","s","_","2","0","2","4","0","1","1","6">>

absl_ns_str ==
    <<"a","b","s","l",":",":">>

ColonColon ==
    <<":",":">>

StorageName ==
    <<"a","b","s","l",":",":","c","o","n","t","a","i","n","e","r","_","i","n","t","e","r","n","a","l",":",":","i","n","t","e","r","n","a","l","_","c","o","m","p","r","e","s","s","e","d","_","t","u","p","l","e",":",":","S","t","o","r","a","g","e">>

CommonFieldsArgs ==
    <<"<","a","b","s","l",":",":","c","o","n","t","a","i","n","e","r","_","i","n","t","e","r","n","a","l",":",":","C","o","m","m","o","n","F","i","e","l","d","s",","," ","0",","," ","f","a","l","s","e",">">>

NodeHashMapName ==
    <<"a","b","s","l",":",":","n","o","d","e","_","h","a","s","h","_","m","a","p">>

NodeHashSetName ==
    <<"a","b","s","l",":",":","n","o","d","e","_","h","a","s","h","_","s","e","t">>

FlatHashMapName ==
    <<"a","b","s","l",":",":","f","l","a","t","_","h","a","s","h","_","m","a","p">>

FlatHashSetName ==
    <<"a","b","s","l",":",":","f","l","a","t","_","h","a","s","h","_","s","e","t">>

BoostOptionalName ==
    <<"b","o","o","s","t",":",":","o","p","t","i","o","n","a","l">>

NoTypeNamed ==
    <<"N","o"," ","t","y","p","e"," ","n","a","m","e","d"," ">>

(***************************************************************************)
(* Python string primitives.                                               *)
(***************************************************************************)
\* s[a:b] for 0 <= a, b <= len(s)
Slice(s, a, b) == SubSeq(s, a + 1, b)

\* s.startswith(sub, i): sub occurs in s at 0-based index i
OccursAt(s, sub, i) ==
    /\ i >= 0
    /\ i + Len(sub) <= Len(s)
    /\ Slice(s, i, i + Len(sub)) = sub

RECURSIVE FindFrom(_, _, _)
FindFrom(s, sub, i) ==
    IF i + Len(sub) > Len(s) THEN -1
    ELSE IF OccursAt(s, sub, i) THEN i
    ELSE FindFrom(s, sub, i + 1)

\* s.find(sub): the lowest index at which sub occurs, -1 when it does not
Find(s, sub) == FindFrom(s, sub, 0)

\* s.startswith(sub)
StartsWith(s, sub) == OccursAt(s, sub, 0)

(***************************************************************************)
(* absl_insert_version_after_absl.  The result is a record: raised names   *)
(* the exception that escapes ("" when the call returns), value the        *)
(* returned string.                                                        *)
(***************************************************************************)
Returned(v) == [raised |-> "", value |-> v]

Raised(e) == [raised |-> e, value |-> <<>>]

\* the mutant inserts the version without the "::" that follows it
absl_insert_version_no_separator(cpp_name) ==
    LET absl_ns_start == Find(cpp_name, absl_ns_str)
        absl_ns_end == absl_ns_start + Len(absl_ns_str)
    IN  IF absl_ns_start = -1 THEN Raised("ValueError")
        ELSE Returned(Slice(cpp_name, 0, absl_ns_end)
                      \o ABSL_OPTION_INLINE_NAMESPACE_NAME
                      \o Slice(cpp_name, absl_ns_end, Len(cpp_name)))

absl_insert_version_after_absl(cpp_name) ==
    LET absl_ns_start == Find(cpp_name, absl_ns_str)
        absl_ns_end == absl_ns_start + Len(absl_ns_str)
    IN  IF absl_ns_start = -1 THEN Raised("ValueError")
        ELSE Returned(Slice(cpp_name, 0, absl_ns_end)
                      \o ABSL_OPTION_INLINE_NAMESPACE_NAME
                      \o ColonColon
                      \o Slice(cpp_name, absl_ns_end, Len(cpp_name)))


(***************************************************************************)
(* find_match_brackets.                                                    *)
(***************************************************************************)
RECURSIVE BracketLoop(_, _, _, _, _)
\* the for loop: index runs over range(start, str_len), count is the depth
BracketLoop(search, opening, closing, index, count) ==
    IF index >= Len(search) THEN -1
    ELSE LET char == search[index + 1]
             count2 == IF char = opening THEN count + 1
                       ELSE IF char = closing THEN count - 1
                       ELSE count
         IN  IF count2 = 0 THEN index
             ELSE BracketLoop(search, opening, closing, index + 1, count2)

RECURSIVE LastIndexOf(_, _, _)
LastIndexOf(search, char, index) ==
    IF index < 0 THEN -1
    ELSE IF search[index + 1] = char THEN index
    ELSE LastIndexOf(search, char, index - 1)

\* the mutant answers the last closing bracket instead of the matching one
find_last_closing_bracket(search, opening, closing) ==
    IF Find(search, <<opening>>) = -1 THEN -1
    ELSE LastIndexOf(search, closing, Len(search) - 1)

find_match_brackets(search, opening, closing) ==
    LET index == Find(search, <<opening>>)
    IN  IF index = -1 THEN -1
        ELSE BracketLoop(search, opening, closing, index + 1, 1)

(***************************************************************************)
(* The printer collection.                                                 *)
(***************************************************************************)
\* MongoSubPrettyPrinter.__init__; gdb's SubPrettyPrinter starts enabled
MongoSubPrettyPrinter(name, prefix, is_template, printer) ==
    [name |-> name, prefix |-> prefix, is_template |-> is_template,
     printer |-> printer, enabled |-> TRUE]

\* MongoPrettyPrinterCollection.add
add(subprinters, name, prefix, is_template, printer) ==
    Append(subprinters, MongoSubPrettyPrinter(name, prefix, is_template, printer))

\* the subprinters of the collection build_pretty_printer returns
build_pretty_printer ==
    LET pp0 == <<>>
        pp1 == add(pp0, "node_hash_map",
                   absl_insert_version_after_absl(NodeHashMapName).value,
                   TRUE, "AbslNodeHashMapPrinter")
        pp2 == add(pp1, "node_hash_set",
                   absl_insert_version_after_absl(NodeHashSetName).value,
                   TRUE, "AbslNodeHashSetPrinter")
        pp3 == add(pp2, "flat_hash_map",
                   absl_insert_version_after_absl(FlatHashMapName).value,
                   TRUE, "AbslFlatHashMapPrinter")
        pp4 == add(pp3, "flat_hash_set",
                   absl_insert_version_after_absl(FlatHashSetName).value,
                   TRUE, "AbslFlatHashSetPrinter")
    IN  add(pp4, "boost::optional", BoostOptionalName, TRUE, "BoostOptionalPrinter")

\* the type name __call__ works on; None and "" are both <<>>
LookupTag(v) == IF v.tag # <<>> THEN v.tag ELSE v.name

\* the test one subprinter applies to the type name
EntryMatches(printer, lookup_tag, index) ==
    IF printer.is_template
    THEN index + 1 = Len(lookup_tag) /\ Find(lookup_tag, printer.prefix) = 0
    ELSE lookup_tag = printer.prefix

RECURSIVE CallLoop(_, _, _, _)
\* for printer in self.subprinters
CallLoop(printers, i, lookup_tag, index) ==
    IF i > Len(printers) THEN "None"
    ELSE IF ~printers[i].enabled THEN CallLoop(printers, i + 1, lookup_tag, index)
    ELSE IF EntryMatches(printers[i], lookup_tag, index) THEN printers[i].printer
    ELSE CallLoop(printers, i + 1, lookup_tag, index)

\* MongoPrettyPrinterCollection.__call__: the printer class constructed, or
\* "None"
__call__(printers, v) ==
    LET lookup_tag == LookupTag(v)
    IN  IF lookup_tag = <<>> THEN "None"
        ELSE CallLoop(printers, 1, lookup_tag,
                      find_match_brackets(lookup_tag, "<", ">"))

(***************************************************************************)
(* State.                                                                  *)
(*   subprinters, val, dpc, result: the printer collection, the value      *)
(*     handed to it, the position of the host's call and what it returned; *)
(*   cpp_name, ipc, inserted: the argument of one call of                  *)
(*     absl_insert_version_after_absl, its position and its outcome;       *)
(*   self_val, db: the container a printer was built for and the type      *)
(*     database of its image; MAIN_GLOBAL_BLOCK: the module's global;      *)
(*   pc: the position of the printer's children() generator; cast_type,    *)
(*     lookups, size, item: the locals of absl_get_settings and            *)
(*     absl_get_nodes; nodes: what absl_get_nodes has yielded; children,   *)
(*     count: what children() has yielded and its counter; ctrlReads,      *)
(*     slotReads: the control bytes and slots read so far; error: the      *)
(*     exception that escaped; summary: what to_string returned.           *)
(***************************************************************************)
VARIABLES subprinters, val, dpc, result,
          cpp_name, ipc, inserted,
          self_val, db, MAIN_GLOBAL_BLOCK, pc, cast_type, lookups, size,
          item, nodes, children, count, ctrlReads, slotReads, error, summary

dvars == <<subprinters, val, dpc, result>>

ivars == <<cpp_name, ipc, inserted>>

wvars == <<self_val, db, MAIN_GLOBAL_BLOCK, pc, cast_type, lookups, size,
           item, nodes, children, count, ctrlReads, slotReads, error, summary>>

vars == <<dvars, ivars, wvars>>

(***************************************************************************)
(* Inputs.                                                                 *)
(***************************************************************************)
\* all sequences over S of length at most n
SeqsUpTo(S, n) == UNION {[1..k -> S] : k \in 0..n}

RECURSIVE Concat(_)
\* the concatenation of a sequence of strings
Concat(parts) ==
    IF parts = <<>> THEN <<>> ELSE Head(parts) \o Concat(Tail(parts))

\* how the names of dispatched types begin: the registered prefixes, a
\* container name without the inline namespace, and nothing
Heads ==
    {build_pretty_printer[i].prefix : i \in 1..Len(build_pretty_printer)}
        \cup {NodeHashMapName, <<>>}

\* the characters that follow: brackets and an identifier character
TailChars == {"<", ">", "i"}

TypeNames == {h \o t : h \in Heads, t \in SeqsUpTo(TailChars, MaxTail)}

\* a gdb.Value's type: its basic type's tag and its own name, either of
\* which may be missing
DispatchedValues ==
    {[tag |-> n, name |-> <<>>] : n \in TypeNames}
        \cup {[tag |-> <<>>, name |-> n] : n \in TypeNames}

ScenarioOuter ==
    <<"a","b","s","l",":",":","n","o","d","e","_","h","a","s","h","_","m","a","p","<","K",",","V",">">>

ScenarioNested ==
    <<"a","b","s","l",":",":","n","o","d","e","_","h","a","s","h","_","m","a","p","<","a","b","s","l",":",":","P","a","i","r","<","K",",","V",">",",","V",">">>

Fragments == {absl_ns_str, <<"a","b","s","l">>, <<"P">>, <<"<">>, <<">">>}

CppNames ==
    {Concat(parts) : parts \in SeqsUpTo(Fragments, MaxParts)}
        \cup {ScenarioOuter, ScenarioNested, StorageName, CommonFieldsArgs,
              StorageName \o CommonFieldsArgs}

(***************************************************************************)
(* The dispatcher: the host enables and disables subprinters, and calls    *)
(* the collection with a value.                                            *)
(***************************************************************************)
DispatchIdle ==
    /\ subprinters = <<>>
    /\ val = [tag |-> <<>>, name |-> <<>>]
    /\ dpc = "idle"
    /\ result = "None"

DispatchInit ==
    /\ subprinters = build_pretty_printer
    /\ val \in DispatchedValues
    /\ dpc = "idle"
    /\ result = "None"

\* gdb's enable/disable pretty-printer commands set a subprinter's enabled
SetEnabled ==
    /\ dpc = "idle"
    /\ \E i \in 1..Len(subprinters) :
          subprinters' = [subprinters EXCEPT ![i].enabled = ~@]
    /\ UNCHANGED <<val, dpc, result, ivars, wvars>>

CallCollection ==
    /\ dpc = "idle"
    /\ result' = __call__(subprinters, val)
    /\ dpc' = "returned"
    /\ UNCHANGED <<subprinters, val, ivars, wvars>>

\* the host is done with the printer it was given
DropPrinter ==
    /\ dpc = "returned"
    /\ dpc' = "idle"
    /\ result' = "None"
    /\ UNCHANGED <<subprinters, val, ivars, wvars>>

(***************************************************************************)
(* One call of absl_insert_version_after_absl.                             *)
(***************************************************************************)
InsertIdle ==
    /\ cpp_name = <<>>
    /\ ipc = "idle"
    /\ inserted = Returned(<<>>)

InsertInit ==
    /\ cpp_name \in CppNames
    /\ ipc = "called"
    /\ inserted = Returned(<<>>)

InsertVersion ==
    /\ ipc = "called"
    /\ inserted' = absl_insert_version_after_absl(cpp_name)
    /\ ipc' = "done"
    /\ UNCHANGED <<cpp_name, dvars, wvars>>

(***************************************************************************)
(* The debugger's side of the container printers.                          *)
(*                                                                         *)
(* The image's type database (oracle) says how gdb.lookup_type answers     *)
(* for the names the printers look up; these are the names as the          *)
(* compiler recorded them, and a lookup of any other name finds nothing.   *)
(***************************************************************************)
PrimaryTypeName ==
    <<"a","b","s","l",":",":","l","t","s","_","2","0","2","4","0","1","1","6",":",":","c","o","n","t","a","i","n","e","r","_","i","n","t","e","r","n","a","l",":",":","i","n","t","e","r","n","a","l","_","c","o","m","p","r","e","s","s","e","d","_","t","u","p","l","e",":",":","S","t","o","r","a","g","e","<","a","b","s","l",":",":","l","t","s","_","2","0","2","4","0","1","1","6",":",":","c","o","n","t","a","i","n","e","r","_","i","n","t","e","r","n","a","l",":",":","C","o","m","m","o","n","F","i","e","l","d","s",","," ","0",","," ","f","a","l","s","e",">">>

FallbackTypeName ==
    <<"a","b","s","l",":",":","l","t","s","_","2","0","2","4","0","1","1","6",":",":","c","o","n","t","a","i","n","e","r","_","i","n","t","e","r","n","a","l",":",":","i","n","t","e","r","n","a","l","_","c","o","m","p","r","e","s","s","e","d","_","t","u","p","l","e",":",":","S","t","o","r","a","g","e","<","a","b","s","l",":",":","c","o","n","t","a","i","n","e","r","_","i","n","t","e","r","n","a","l",":",":","C","o","m","m","o","n","F","i","e","l","d","s",","," ","0",","," ","f","a","l","s","e",">">>

NoStructTypeNamed ==
    <<"N","o"," ","s","t","r","u","c","t"," ","t","y","p","e"," ","n","a","m","e","d"," ">>

SlotTypeSuffix ==
    <<":",":","s","l","o","t","_","t","y","p","e">>

FailedToGetType ==
    <<"F","a","i","l","e","d"," ","t","o"," ","g","e","t"," ","t","y","p","e",","," ","t","r","i","e","d",":">>

Newline == <<"\n">>

PrinterClasses ==
    {"AbslNodeHashSetPrinter", "AbslFlatHashSetPrinter",
     "AbslNodeHashMapPrinter", "AbslFlatHashMapPrinter"}

\* str(val.type.strip_typedefs()) of the value a printer class is built for
ValTypeName(printer) ==
    LET e == CHOOSE x \in {build_pretty_printer[i] :
                              i \in 1..Len(build_pretty_printer)} :
                 x.printer = printer
    IN  e.prefix \o <<"<","K",">">>

\* the entry of the type database a name selects
TypeKey(image, name) ==
    IF name = PrimaryTypeName THEN "primary"
    ELSE IF name = FallbackTypeName THEN "fallback"
    ELSE IF name = ValTypeName(image.container) \o SlotTypeSuffix THEN "slot_type"
    ELSE "unknown"

\* what the database holds under a key, in a scope
TypeAnswer(image, key, scope) ==
    IF key = "unknown" THEN "notfound"
    ELSE IF key = "slot_type" THEN image[scope]
    ELSE image[key]

\* the gdb.Type found, or the gdb.error raised and its message
LookupOutcome(answer, key, name) ==
    IF answer = "ok" THEN [raised |-> "", value |-> key, msg |-> <<>>]
    ELSE [raised |-> "gdb.error", value |-> "",
          msg |-> (IF answer = "notfound" THEN NoTypeNamed
                   ELSE NoStructTypeNamed) \o name \o <<".">>]

TypeLookup(image, key, name, scope) ==
    LookupOutcome(TypeAnswer(image, key, scope), key, name)

\* gdb.lookup_type(name) and gdb.lookup_type(name, block)
gdb_lookup_type(image, name, scope) ==
    TypeLookup(image, TypeKey(image, name), name, scope)

(***************************************************************************)
(* lookup_type.  MAIN_GLOBAL_BLOCK is "unbound" while the module has not   *)
(* assigned the global, and "block" once it holds main's global block.     *)
(* The result carries the new value of the global and the lookups made.    *)
(***************************************************************************)
\* lines 33-46, given what the two gdb.lookup_type calls answer
LookupTypeOutcome(image, mgb, first, second) ==
    IF first.raised = ""
    THEN [raised |-> "", value |-> first.value, msg |-> <<>>, mgb |-> mgb,
          looked |-> <<"default">>]
    ELSE IF mgb = "unbound"
    THEN \* line 38 reads a global that no statement of the module binds
         [raised |-> "NameError", value |-> "", msg |-> <<>>, mgb |-> mgb,
          looked |-> <<"default">>]
    ELSE IF mgb = "None" /\ image.main_symbol # "ok"
    THEN \* gdb.lookup_symbol("main")[0] is None
         [raised |-> "AttributeError", value |-> "", msg |-> <<>>,
          mgb |-> mgb, looked |-> <<"default">>]
    ELSE IF second.raised = ""
    THEN [raised |-> "", value |-> second.value, msg |-> <<>>,
          mgb |-> "block", looked |-> <<"default", "scoped">>]
    ELSE [raised |-> "gdb.error", value |-> "",
          msg |-> FailedToGetType \o Newline \o first.msg \o Newline
                  \o second.msg,
          mgb |-> "block", looked |-> <<"default", "scoped">>]

lookup_type(image, mgb, gdb_type_str) ==
    LookupTypeOutcome(image, mgb,
                      gdb_lookup_type(image, gdb_type_str, "slot_default"),
                      gdb_lookup_type(image, gdb_type_str, "slot_scoped"))

(***************************************************************************)
(* absl_get_settings.  looked lists the type-database entries the call     *)
(* looked up, in order; cast_type is the storage type settings_ was cast   *)
(* to.                                                                     *)
(***************************************************************************)
\* the mutant falls back on every gdb.error
IsAnyGdbError(message) == TRUE

\* err.args[0].startswith("No type named ")
IsNoTypeNamed(message) == StartsWith(message, NoTypeNamed)

\* lines 102-126, given what the two gdb.lookup_type calls answer
SettingsOutcome(v, primary, fallback, primary_key, fallback_key) ==
    IF primary.raised = ""
    THEN [raised |-> "", msg |-> <<>>, cast_type |-> primary.value,
          value |-> v.settings_, looked |-> <<primary_key>>]
    ELSE IF ~IsNoTypeNamed(primary.msg)
    THEN [raised |-> primary.raised, msg |-> primary.msg, cast_type |-> "",
          value |-> <<>>, looked |-> <<primary_key>>]
    ELSE IF fallback.raised = ""
    THEN [raised |-> "", msg |-> <<>>, cast_type |-> fallback.value,
          value |-> v.settings_, looked |-> <<primary_key, fallback_key>>]
    ELSE [raised |-> fallback.raised, msg |-> fallback.msg, cast_type |-> "",
          value |-> <<>>, looked |-> <<primary_key, fallback_key>>]

\* the spelling line 103-108 looks up first
PrimarySpelling ==
    absl_insert_version_after_absl(StorageName).value
        \o absl_insert_version_after_absl(CommonFieldsArgs).value

\* the spelling line 116-121 looks up next
FallbackSpelling ==
    absl_insert_version_after_absl(StorageName \o CommonFieldsArgs).value

SettingsLookups(image, v, primary_name, fallback_name) ==
    SettingsOutcome(v, gdb_lookup_type(image, primary_name, ""),
                    gdb_lookup_type(image, fallback_name, ""),
                    TypeKey(image, primary_name), TypeKey(image, fallback_name))

absl_get_settings(image, v) ==
    SettingsLookups(image, v, PrimarySpelling, FallbackSpelling)

(***************************************************************************)
(* absl_container_size.  A CommonFields value is a function from the       *)
(* names of its fields; reading a field it does not have raises.           *)
(***************************************************************************)
absl_container_size(settings) ==
    IF "compressed_tuple_" \in DOMAIN settings
    THEN settings["compressed_tuple_"]["value"]
    ELSE settings["capacity_"]

\* int(ctrl[item]): ctrl_t is a signed 8-bit type
ReadSigned(byte) == IF byte >= 128 THEN byte - 256 ELSE byte

\* the mutant scans on even when the table reports no element
NeverEmpty(n) == FALSE

\* if size == 0
SizeIsZero(n) == n = 0

(***************************************************************************)
(* The inspected containers.                                               *)
(***************************************************************************)
\* raw control bytes: a full slot with hash bits 0 and 127, and kEmpty
CtrlBytes == {0, 127, 128}

\* the control array: one byte per slot, the sentinel (-1), and the clone of
\* the first byte that abseil keeps after it
ControlArray(bytes) ==
    bytes \o <<255>> \o (IF bytes = <<>> THEN <<>> ELSE <<bytes[1]>>)

\* the common fields of a table; the size is held either in a nested
\* compressed tuple or in a plain field
CommonFields(capacity, stored, layout, bytes) ==
    IF layout = "compressed_tuple_"
    THEN [compressed_tuple_ |-> [value |-> stored], capacity_ |-> capacity,
          control_ |-> ControlArray(bytes),
          slots_ |-> [i \in 1..capacity |-> i - 1]]
    ELSE [size_ |-> stored, capacity_ |-> capacity,
          control_ |-> ControlArray(bytes),
          slots_ |-> [i \in 1..capacity |-> i - 1]]

\* the stored size never exceeds the capacity; the control bytes are any
Containers ==
    UNION {{[printer |-> p, settings_ |-> CommonFields(c, sz, layout, bytes)] :
               p \in PrinterClasses,
               layout \in {"compressed_tuple_", "size_"},
               sz \in 0..c,
               bytes \in [1..c -> CtrlBytes]} : c \in 0..MaxCap}

\* the type databases: how the two spellings of the storage type and the
\* slot type (in the default scope and in main's global block) resolve
TypeDatabases(p) ==
    {[container |-> p, primary |-> st[1], fallback |-> st[2],
      slot_default |-> sl[1], main_symbol |-> sl[2], slot_scoped |-> sl[3]] :
        st \in {<<"ok", "ok">>, <<"notfound", "ok">>,
                <<"notfound", "notfound">>, <<"error", "ok">>},
        sl \in {<<"ok", "ok", "ok">>, <<"notfound", "ok", "ok">>,
                <<"notfound", "ok", "notfound">>,
                <<"notfound", "missing", "notfound">>}}

(***************************************************************************)
(* The container printers.                                                 *)
(***************************************************************************)
Digits == <<"0", "1", "2", "3", "4", "5", "6", "7", "8", "9">>

RECURSIVE Str(_)
\* str(count) of a non-negative integer
Str(n) == IF n < 10 THEN <<Digits[n + 1]>>
          ELSE Str(n \div 10) \o <<Digits[(n % 10) + 1]>>

IsMapPrinter(printer) ==
    printer \in {"AbslNodeHashMapPrinter", "AbslFlatHashMapPrinter"}

\* a child is (label, value); a value is a slot and the path read from it
Child(n, slot, path) == [label |-> Str(n), slot |-> slot, path |-> path]

\* the child a children() yields first for a node
FirstChild(printer, n, node) ==
    CASE printer = "AbslNodeHashSetPrinter" -> Child(n, node, <<"dereference">>)
      [] printer = "AbslFlatHashSetPrinter" -> Child(n, node, <<>>)
      [] printer = "AbslNodeHashMapPrinter" -> Child(n, node, <<"first">>)
      [] printer = "AbslFlatHashMapPrinter" -> Child(n, node, <<"key">>)

\* the child a map's children() yields next for the same node
SecondChild(printer, n, node) ==
    CASE printer = "AbslNodeHashMapPrinter" -> Child(n, node, <<"second">>)
      [] printer = "AbslFlatHashMapPrinter" -> Child(n, node, <<"value", "second">>)

\* whether children() yields a second child for each node
YieldsTwice(printer) == IsMapPrinter(printer)

NoError == [class |-> "", msg |-> <<>>, where |-> ""]

NoSummary == [to_str |-> "", container |-> "", elems |-> -1]

\* to_string's text: "absl::%s_hash_set<...> with %s elems "
Summary(printer, elems) ==
    [to_str |-> IF printer \in {"AbslNodeHashSetPrinter", "AbslNodeHashMapPrinter"}
                THEN "node" ELSE "flat",
     container |-> IF IsMapPrinter(printer) THEN "hash_map" ELSE "hash_set",
     elems |-> elems]

WalkerIdle ==
    /\ self_val = [printer |-> "", settings_ |-> <<>>]
    /\ db = <<>>
    /\ MAIN_GLOBAL_BLOCK = "unbound"
    /\ pc = "none"
    /\ cast_type = ""
    /\ lookups = <<>>
    /\ size = -1
    /\ item = 0
    /\ nodes = <<>>
    /\ children = <<>>
    /\ count = 0
    /\ ctrlReads = 0
    /\ slotReads = 0
    /\ error = NoError
    /\ summary = NoSummary

\* a printer has been constructed for a container; the module was loaded,
\* which binds no MAIN_GLOBAL_BLOCK
WalkerInit ==
    /\ self_val \in Containers
    /\ db \in TypeDatabases(self_val.printer)
    /\ MAIN_GLOBAL_BLOCK = "unbound"
    /\ pc = "created"
    /\ cast_type = ""
    /\ lookups = <<>>
    /\ size = -1
    /\ item = 0
    /\ nodes = <<>>
    /\ children = <<>>
    /\ count = 0
    /\ ctrlReads = 0
    /\ slotReads = 0
    /\ error = NoError
    /\ summary = NoSummary

\* to_string, which gdb calls before it asks for the children
to_string ==
    /\ pc = "created"
    /\ summary = NoSummary
    /\ \E s \in {absl_get_settings(db, self_val)} :
           /\ lookups' = s.looked
           /\ cast_type' = s.cast_type
           /\ IF s.raised # ""
              THEN /\ pc' = "raised"
                   /\ error' = [class |-> s.raised, msg |-> s.msg,
                                where |-> "absl_get_settings"]
                   /\ UNCHANGED summary
              ELSE /\ summary' = Summary(self_val.printer,
                                         absl_container_size(s.value))
                   /\ UNCHANGED <<pc, error>>
    /\ UNCHANGED <<self_val, db, MAIN_GLOBAL_BLOCK, size, item, nodes, children,
                   count, ctrlReads, slotReads, dvars, ivars>>

\* the first next() of children(): absl_get_nodes runs up to its loop
BeginChildren ==
    /\ pc = "created"
    /\ \E s \in {absl_get_settings(db, self_val)},
          t \in {lookup_type(db, MAIN_GLOBAL_BLOCK,
                             ValTypeName(self_val.printer) \o SlotTypeSuffix)} :
       \E sz \in {IF s.raised = "" THEN absl_container_size(s.value) ELSE -1} :
           /\ cast_type' = s.cast_type
           /\ IF s.raised # ""
              THEN /\ pc' = "raised"
                   /\ error' = [class |-> s.raised, msg |-> s.msg,
                                where |-> "absl_get_settings"]
                   /\ lookups' = s.looked
                   /\ UNCHANGED <<size, MAIN_GLOBAL_BLOCK>>
              ELSE IF SizeIsZero(sz)
              THEN /\ pc' = "done"
                   /\ size' = sz
                   /\ lookups' = s.looked
                   /\ UNCHANGED <<error, MAIN_GLOBAL_BLOCK>>
              ELSE IF t.raised # ""
              THEN /\ pc' = "raised"
                   /\ error' = [class |-> t.raised, msg |-> t.msg,
                                where |-> "lookup_type"]
                   /\ size' = sz
                   /\ lookups' = s.looked \o t.looked
                   /\ MAIN_GLOBAL_BLOCK' = t.mgb
              ELSE /\ pc' = "scan"
                   /\ size' = sz
                   /\ lookups' = s.looked \o t.looked
                   /\ MAIN_GLOBAL_BLOCK' = t.mgb
                   /\ UNCHANGED error
    /\ UNCHANGED <<self_val, db, item, nodes, children, count, ctrlReads,
                   slotReads, summary, dvars, ivars>>

\* one pass of "for item in range(capacity)"; an occupied slot is yielded,
\* and children() yields its first child for it
ScanStep ==
    /\ pc = "scan"
    /\ item < self_val.settings_["capacity_"]
    /\ \E ctrl_t \in {ReadSigned(self_val.settings_["control_"][item + 1])},
          node \in {self_val.settings_["slots_"][item + 1]} :
           /\ ctrlReads' = ctrlReads + 1
           /\ item' = item + 1
           /\ IF ctrl_t >= 0
              THEN /\ slotReads' = slotReads + 1
                   /\ nodes' = Append(nodes, node)
                   /\ children' = Append(children,
                                         FirstChild(self_val.printer, count, node))
                   /\ count' = count + 1
                   /\ pc' = IF YieldsTwice(self_val.printer) THEN "second"
                            ELSE "scan"
              ELSE UNCHANGED <<slotReads, nodes, children, count, pc>>
    /\ UNCHANGED <<self_val, db, MAIN_GLOBAL_BLOCK, cast_type, lookups, size,
                   error, summary, dvars, ivars>>

\* a map's children() yields the value of the node it just yielded the key of
YieldSecond ==
    /\ pc = "second"
    /\ children' = Append(children,
                          SecondChild(self_val.printer, count, nodes[Len(nodes)]))
    /\ count' = count + 1
    /\ pc' = "scan"
    /\ UNCHANGED <<self_val, db, MAIN_GLOBAL_BLOCK, cast_type, lookups, size,
                   item, nodes, ctrlReads, slotReads, error, summary, dvars, ivars>>

\* range(capacity) is exhausted: absl_get_nodes and children() end
FinishChildren ==
    /\ pc = "scan"
    /\ item >= self_val.settings_["capacity_"]
    /\ pc' = "done"
    /\ UNCHANGED <<self_val, db, MAIN_GLOBAL_BLOCK, cast_type, lookups, size,
                   item, nodes, children, count, ctrlReads, slotReads, error,
                   summary, dvars, ivars>>

(***************************************************************************)
(* Specifications.                                                         *)
(***************************************************************************)
DispatchNext == SetEnabled \/ CallCollection \/ DropPrinter

DispatchSpecInit == DispatchInit /\ InsertIdle /\ WalkerIdle

DispatchSpec == DispatchSpecInit /\ [][DispatchNext]_vars

InsertNext == InsertVersion

InsertSpecInit == InsertInit /\ DispatchIdle /\ WalkerIdle

InsertSpec == InsertSpecInit /\ [][InsertNext]_vars

Next == to_string \/ BeginChildren \/ ScanStep \/ YieldSecond \/ FinishChildren

Init == WalkerInit /\ DispatchIdle /\ InsertIdle

Spec == Init /\ [][Next]_vars

(***************************************************************************)
(* Properties of the slot walker and the container printers (Spec).        *)
(***************************************************************************)
Capacity == self_val.settings_["capacity_"]

\* the slots whose control byte, read as a signed 8-bit value, is not
\* negative: those whose byte has its high bit clear
OccupiedSet ==
    {i \in 0..(Capacity - 1) : self_val.settings_["control_"][i + 1] < 128}

\* the elements of a set of integers in ascending order
Ascending(S) ==
    CHOOSE f \in [1..Cardinality(S) -> S] :
        \A a, b \in 1..Cardinality(S) : a < b => f[a] < f[b]

\* the slots absl_get_nodes is to yield, as elements of the slot array
OccupiedSlots ==
    [j \in 1..Cardinality(OccupiedSet) |->
        self_val.settings_["slots_"][Ascending(OccupiedSet)[j] + 1]]

\* the value absl_container_size returns for the container's settings
ReportedSize == absl_container_size(self_val.settings_)

\* the size the table stores, wherever its layout keeps it
StoredSize ==
    IF "compressed_tuple_" \in DOMAIN self_val.settings_
    THEN self_val.settings_["compressed_tuple_"]["value"]
    ELSE self_val.settings_["size_"]

\* the image holds the storage type under a spelling absl_get_settings
\* tries, so that a reported size exists
SettingsResolvable ==
    db.primary = "ok" \/ (db.primary = "notfound" /\ db.fallback = "ok")

\* the image holds the slot type where lookup_type is to look for it: in
\* the default scope, or in the global block of main
SlotTypeResolvable ==
    db.slot_default = "ok" \/ (db.main_symbol = "ok" /\ db.slot_scoped = "ok")

\* children() has been consumed to its end: exhausted, or stopped by an
\* exception
Consumed == pc \in {"done", "raised"}

\* C1: for a table with a non-zero reported size, fully consuming
\* absl_get_nodes yields exactly the slots whose control byte is
\* non-negative, each once, in ascending index order (stated for the images
\* in which the types the walker needs can be resolved).
C1_WalkerYieldsOccupiedSlots ==
    (Consumed /\ SettingsResolvable /\ SlotTypeResolvable /\ ReportedSize # 0) =>
        /\ pc = "done"
        /\ nodes = OccupiedSlots
        /\ Len(nodes) = Cardinality(OccupiedSet)

\* The scan of C1 by itself: what absl_get_nodes has yielded is always the
\* occupied slots below the next index, in ascending order, and a scan that
\* reaches the end of range(capacity) has yielded all of them.
ScanYieldsOccupiedSlots ==
    /\ nodes = [j \in 1..Cardinality({i \in OccupiedSet : i < item}) |->
                   self_val.settings_["slots_"]
                       [Ascending({i \in OccupiedSet : i < item})[j] + 1]]
    /\ slotReads = Len(nodes)
    /\ ctrlReads = item
    /\ (pc = "done" /\ ReportedSize # 0) => nodes = OccupiedSlots

ScanYieldsOccupiedSlots_Witness ==
    /\ pc = "done"
    /\ ReportedSize # 0
    /\ Capacity = 3
    /\ nodes = <<0, 2>>

\* C2: with capacity 0 or reported size 0, absl_get_nodes yields the empty
\* sequence and reads no control byte and no slot, whatever the control
\* bytes are.
C2_EmptyWithoutReads ==
    (pc # "created" /\ error.where # "absl_get_settings"
        /\ (Capacity = 0 \/ ReportedSize = 0)) =>
        /\ pc = "done"
        /\ nodes = <<>>
        /\ children = <<>>
        /\ ctrlReads = 0
        /\ slotReads = 0

C2_Witness ==
    /\ pc = "done"
    /\ ReportedSize = 0
    /\ Capacity = 3
    /\ Cardinality(OccupiedSet) = 2
    /\ nodes = <<>>

\* C7: absl_get_settings looks the primary spelling up first; when that
\* fails with "No type named ..." and the fallback spelling resolves, the
\* call returns settings_ cast to the fallback type; when it fails with
\* another error, that error escapes and the fallback is not looked up;
\* when it succeeds, the fallback is not looked up.
C7_SettingsFallback ==
    lookups # <<>> =>
        /\ lookups[1] = "primary"
        /\ db.primary = "ok" =>
              /\ cast_type = "primary"
              /\ \A n \in 1..Len(lookups) : lookups[n] # "fallback"
              /\ error.where # "absl_get_settings"
        /\ (db.primary = "notfound" /\ db.fallback = "ok") =>
              /\ Len(lookups) >= 2
              /\ lookups[2] = "fallback"
              /\ cast_type = "fallback"
              /\ error.where # "absl_get_settings"
        /\ db.primary = "error" =>
              /\ pc = "raised"
              /\ error = [class |-> "gdb.error",
                          msg |-> NoStructTypeNamed \o PrimaryTypeName \o <<".">>,
                          where |-> "absl_get_settings"]
              /\ lookups = <<"primary">>

C7_Witness ==
    /\ db.primary = "notfound"
    /\ db.fallback = "ok"
    /\ cast_type = "fallback"
    /\ summary # NoSummary
    /\ pc = "done"

\* the children a printer is to yield for the occupied slots
KeyPath(printer) ==
    IF printer = "AbslNodeHashMapPrinter" THEN <<"first">> ELSE <<"key">>

ValuePath(printer) ==
    IF printer = "AbslNodeHashMapPrinter" THEN <<"second">>
    ELSE <<"value", "second">>

\* what a printer's children() is to yield for the occupied slots
ExpectedChildren ==
    IF self_val.printer \in {"AbslNodeHashMapPrinter", "AbslFlatHashMapPrinter"}
    THEN /\ Len(children) = 2 * Cardinality(OccupiedSet)
         /\ \A j \in 1..Cardinality(OccupiedSet) :
               /\ children[2 * j - 1].slot = OccupiedSlots[j]
               /\ children[2 * j - 1].path = KeyPath(self_val.printer)
               /\ children[2 * j].slot = OccupiedSlots[j]
               /\ children[2 * j].path = ValuePath(self_val.printer)
    ELSE /\ Len(children) = Cardinality(OccupiedSet)
         /\ \A j \in 1..Cardinality(OccupiedSet) :
               children[j].slot = OccupiedSlots[j]

\* C8: for k occupied slots and a non-zero reported size, a map printer's
\* children() yields 2k children, the key of a slot immediately followed by
\* the value of the same slot, in ascending slot order; a set printer's
\* yields k children, one per occupied slot, in ascending slot order
\* (stated for the images in which the types the walker needs can be
\* resolved).
C8_ChildrenPerOccupiedSlot ==
    (Consumed /\ SettingsResolvable /\ SlotTypeResolvable /\ ReportedSize # 0) =>
        /\ pc = "done"
        /\ ExpectedChildren

\* The printers of C8 by themselves: a children() that is exhausted has
\* yielded the expected children.
ExhaustedChildrenAreExpected ==
    (pc = "done" /\ ReportedSize # 0) => ExpectedChildren

ExhaustedChildrenAreExpected_Witness ==
    /\ pc = "done"
    /\ self_val.printer = "AbslFlatHashMapPrinter"
    /\ Cardinality(OccupiedSet) = 2
    /\ Len(children) = 4

\* C9: for a table whose stored size is the number of its non-negative
\* control bytes, under either size layout, absl_get_nodes yields as many
\* elements as absl_container_size returns.
C9_YieldCountEqualsReportedSize ==
    (pc = "done" /\ StoredSize = Cardinality(OccupiedSet)) =>
        /\ size = ReportedSize
        /\ Len(nodes) = ReportedSize

\* C6: lookup_type returns the type when the default-scope lookup or the
\* lookup in main's global block succeeds; the only error that escapes
\* from it is the aggregated gdb.error, which carries the text of both
\* failures and is raised only when both lookups fail (stated for the
\* images in which the symbol main resolves).
C6_LookupTypeFallsBack ==
    (pc = "raised" /\ error.where = "lookup_type" /\ db.main_symbol = "ok") =>
        /\ error.class = "gdb.error"
        /\ db.slot_default # "ok"
        /\ db.slot_scoped # "ok"
        /\ StartsWith(error.msg, FailedToGetType)
        /\ MAIN_GLOBAL_BLOCK = "block"

(***************************************************************************)
(* Properties of the dispatcher (DispatchSpec).                            *)
(***************************************************************************)
Tag == IF val.tag # <<>> THEN val.tag ELSE val.name

\* the positions (1-based) of a character in a string
Positions(s, ch) == {i \in 1..Len(s) : s[i] = ch}

\* j closes the first "<" of s: it is the first position after it up to
\* which as many ">" as "<" have been read
ClosesFirst(s, j) ==
    /\ Positions(s, "<") # {}
    /\ LET first == CHOOSE i \in Positions(s, "<") :
                        \A k \in Positions(s, "<") : i <= k
           Balanced(n) ==
               Cardinality({i \in Positions(s, "<") : first <= i /\ i <= n})
                   = Cardinality({i \in Positions(s, ">") : first <= i /\ i <= n})
       IN  /\ j > first
           /\ Balanced(j)
           /\ \A n \in (first + 1)..(j - 1) : ~Balanced(n)

\* the ">" that closes the first "<" is the last character
ClosesAtEnd(s) == s # <<>> /\ ClosesFirst(s, Len(s))

\* s begins with the registered prefix
BeginsWith(s, prefix) ==
    Len(prefix) <= Len(s) /\ SubSeq(s, 1, Len(prefix)) = prefix

\* the text of a type name before its first "<"
BeforeBracket(s) ==
    SubSeq(s, 1, (CHOOSE i \in Positions(s, "<") :
                     \A k \in Positions(s, "<") : i <= k) - 1)

\* a registered entry matches a type name: for a templated entry the
\* bracket closing the first "<" ends the name and the text before that
\* "<" is the prefix
MatchesEntry(e, s) ==
    IF e.is_template THEN ClosesAtEnd(s) /\ BeforeBracket(s) = e.prefix
    ELSE s = e.prefix

\* the test the collection applies to an entry: the name begins with the
\* prefix
PassesEntryTest(e, s) ==
    IF e.is_template THEN ClosesAtEnd(s) /\ BeginsWith(s, e.prefix)
    ELSE s = e.prefix

\* the printer of the first enabled entry among those a test selects, or
\* None
FirstEnabled(selected) ==
    IF \E i \in selected : subprinters[i].enabled
    THEN subprinters[CHOOSE i \in selected :
                        /\ subprinters[i].enabled
                        /\ \A k \in selected : subprinters[k].enabled => i <= k
                    ].printer
    ELSE "None"

\* C3: a type name with no "<", or one in which the ">" closing the first
\* "<" is not the last character, never gets the printer of a templated
\* entry.
C3_NestedTypesNeverMatch ==
    (dpc = "returned" /\ ~ClosesAtEnd(Tag)) =>
        \A i \in 1..Len(subprinters) :
            subprinters[i].is_template => result # subprinters[i].printer

C3_Witness ==
    /\ dpc = "returned"
    /\ \A i \in 1..Len(subprinters) : subprinters[i].enabled
    /\ Tag = subprinters[1].prefix \o <<"<", "i", ">", "i">>
    /\ result = "None"

\* C4: a templated entry matches a type name only if the text before the
\* first "<" of the name equals the entry's prefix.
C4_PrefixEqualsTextBeforeBracket ==
    (dpc = "returned" /\ result # "None") =>
        \E i \in 1..Len(subprinters) :
            /\ subprinters[i].printer = result
            /\ Positions(Tag, "<") # {}
            /\ BeforeBracket(Tag) = subprinters[i].prefix

\* C5: at most one of the five registered entries matches a type name; the
\* dispatcher returns the printer of the first enabled matching entry in
\* registration order, and None when no enabled entry matches or the type
\* has no name.
C5_FirstEnabledMatch ==
    /\ Len(subprinters) = 5
    /\ Cardinality({i \in 1..Len(subprinters) :
                       MatchesEntry(subprinters[i], Tag)}) <= 1
    /\ dpc = "returned" =>
          result = IF Tag = <<>> THEN "None"
                   ELSE FirstEnabled({i \in 1..Len(subprinters) :
                                         MatchesEntry(subprinters[i], Tag)})

\* The loop of C5 by itself: at most one entry passes the collection's own
\* test, and the dispatcher returns the printer of the first enabled entry
\* that passes it, and None when there is none or the type has no name.
DispatchReturnsFirstEnabled ==
    /\ Len(subprinters) = 5
    /\ Cardinality({i \in 1..Len(subprinters) :
                       PassesEntryTest(subprinters[i], Tag)}) <= 1
    /\ dpc = "returned" =>
          result = IF Tag = <<>> THEN "None"
                   ELSE FirstEnabled({i \in 1..Len(subprinters) :
                                         PassesEntryTest(subprinters[i], Tag)})

DispatchReturnsFirstEnabled_Witness ==
    /\ dpc = "returned"
    /\ result = "AbslFlatHashSetPrinter"
    /\ ~subprinters[1].enabled
    /\ ~subprinters[5].enabled

(***************************************************************************)
(* Properties of the version insertion (InsertSpec).                       *)
(***************************************************************************)
ScenarioOuterVersioned ==
    <<"a","b","s","l",":",":","l","t","s","_","2","0","2","4","0","1","1","6",":",":","n","o","d","e","_","h","a","s","h","_","m","a","p","<","K",",","V",">">>

ScenarioNestedOuterOnly ==
    <<"a","b","s","l",":",":","l","t","s","_","2","0","2","4","0","1","1","6",":",":","n","o","d","e","_","h","a","s","h","_","m","a","p","<","a","b","s","l",":",":","P","a","i","r","<","K",",","V",">",",","V",">">>

\* the 0-based indices at which the root namespace token occurs
RootOccurrences(s) ==
    {i \in 0..Len(s) :
        /\ i + Len(absl_ns_str) <= Len(s)
        /\ SubSeq(s, i + 1, i + Len(absl_ns_str)) = absl_ns_str}

VersionToken == ABSL_OPTION_INLINE_NAMESPACE_NAME \o <<":", ":">>

\* the version token follows the occurrence of the root token at index i
Requalified(s, i) ==
    /\ i + Len(absl_ns_str) + Len(VersionToken) <= Len(s)
    /\ SubSeq(s, i + Len(absl_ns_str) + 1,
              i + Len(absl_ns_str) + Len(VersionToken)) = VersionToken

\* C10 as stated: the outer occurrence is re-qualified, and so is every
\* occurrence inside the bracketed template-argument substring.
C10_EveryOccurrenceRequalified ==
    (ipc = "done" /\ inserted.raised = "") =>
        /\ cpp_name = ScenarioOuter => inserted.value = ScenarioOuterVersioned
        /\ \A i \in RootOccurrences(inserted.value) :
              (\E open \in Positions(inserted.value, "<") : open <= i) =>
                  Requalified(inserted.value, i)

\* C10 amended: the version token is inserted after the first occurrence
\* of the root token and nowhere else, the rest of the name is unchanged,
\* and a name without the root token raises ValueError.
C10_FirstOccurrenceOnly ==
    ipc = "done" =>
        IF RootOccurrences(cpp_name) = {}
        THEN inserted.raised = "ValueError"
        ELSE /\ inserted.raised = ""
             /\ \E i \in RootOccurrences(cpp_name) :
                   /\ \A k \in RootOccurrences(cpp_name) : i <= k
                   /\ inserted.value =
                         SubSeq(cpp_name, 1, i + Len(absl_ns_str))
                             \o VersionToken
                             \o SubSeq(cpp_name, i + Len(absl_ns_str) + 1,
                                       Len(cpp_name))
             /\ cpp_name = ScenarioOuter =>
                   inserted.value = ScenarioOuterVersioned
             /\ cpp_name = ScenarioNested =>
                   inserted.value = ScenarioNestedOuterOnly

C10_Witness ==
    /\ ipc = "done"
    /\ cpp_name = ScenarioNested
    /\ inserted.value = ScenarioNestedOuterOnly

=============================================================================
